---- MODULE Spec2Model ----
(***************************************************************************)
(* Model of the coordination layer of the deployment manager               *)
(* (pkg/manager/manager.go): the namespace registry, the monitor registry, *)
(* the notification cascade and the counter derivation.                    *)
(*                                                                         *)
(* Go strings are modelled as sequences of one-character strings, so that  *)
(* parsing and formatting of the notification counter are computed and not *)
(* assumed.  Go's int is taken to be 64 bits wide (amd64/arm64 builds); it *)
(* is modelled as a sign and a normalised decimal magnitude because the    *)
(* values near 2^63 do not fit a model-checker integer.                    *)
(***************************************************************************)
EXTENDS Integers, Sequences, FiniteSets, TLC

\* ------------------------------------------------------------------------
\* Bounds of the model
\* ------------------------------------------------------------------------
MaxLen == 3
MaxUpdates == 2
MaxHandles == 2
MaxParallel == 2

\* ------------------------------------------------------------------------
\* Text helpers: strconv.Atoi / strconv.Itoa on 64-bit int
\* ------------------------------------------------------------------------
Str1 == <<"1">>

DigitChars == <<"0", "1", "2", "3", "4", "5", "6", "7", "8", "9">>

IsDigit(c) == \E i \in 1..10 : DigitChars[i] = c

DigitVal(c) == (CHOOSE i \in 1..10 : DigitChars[i] = c) - 1

AllDigits(s) == \A i \in 1..Len(s) : IsDigit(s[i])

RECURSIVE StripZeros(_)
StripZeros(s) ==
    IF Len(s) > 1 /\ s[1] = "0" THEN StripZeros(Tail(s)) ELSE s

\* magnitude a <= magnitude b, both normalised digit sequences
RECURSIVE LexLeq(_, _)
LexLeq(a, b) ==
    IF a = <<>> THEN TRUE
    ELSE IF DigitVal(a[1]) < DigitVal(b[1]) THEN TRUE
    ELSE IF DigitVal(a[1]) > DigitVal(b[1]) THEN FALSE
    ELSE LexLeq(Tail(a), Tail(b))

MagLeq(a, b) ==
    IF Len(a) # Len(b) THEN Len(a) < Len(b) ELSE LexLeq(a, b)

\* magnitude + 1
RECURSIVE MagInc(_)
MagInc(m) ==
    IF m = <<>> THEN Str1
    ELSE LET n == Len(m)
             d == DigitVal(m[n])
         IN  IF d < 9 THEN SubSeq(m, 1, n - 1) \o <<DigitChars[d + 2]>>
             ELSE MagInc(SubSeq(m, 1, n - 1)) \o <<"0">>

\* magnitude - 1, for a magnitude of at least 1
RECURSIVE MagDecRaw(_)
MagDecRaw(m) ==
    LET n == Len(m)
        d == DigitVal(m[n])
    IN  IF d > 0 THEN SubSeq(m, 1, n - 1) \o <<DigitChars[d]>>
        ELSE MagDecRaw(SubSeq(m, 1, n - 1)) \o <<"9">>

MagDec(m) == StripZeros(MagDecRaw(m))

\* math.MaxInt64 and the magnitude of math.MinInt64
MaxInt64Mag == <<"9","2","2","3","3","7","2","0","3","6","8","5","4","7","7","5","8","0","7">>
MinInt64Mag == <<"9","2","2","3","3","7","2","0","3","6","8","5","4","7","7","5","8","0","8">>

IntZero == [neg |-> FALSE, mag |-> <<"0">>]

\* strconv.Atoi: optional sign, then decimal digits only; the value has to
\* fit a 64-bit int.  err is TRUE for a syntax or a range error.
Atoi(s) ==
    LET signed == s # <<>> /\ s[1] \in {"+", "-"}
        body   == IF signed THEN Tail(s) ELSE s
        neg    == signed /\ s[1] = "-"
        mag    == StripZeros(body)
    IN  IF body = <<>> \/ ~AllDigits(body)
        THEN [err |-> TRUE, val |-> IntZero]
        ELSE IF ~MagLeq(mag, IF neg THEN MinInt64Mag ELSE MaxInt64Mag)
        THEN [err |-> TRUE, val |-> IntZero]
        ELSE [err |-> FALSE,
              val |-> [neg |-> neg /\ mag # <<"0">>, mag |-> mag]]

\* count + 1 on a 64-bit int: wraps from MaxInt64 to MinInt64
IntPlusOne(v) ==
    IF ~v.neg
    THEN IF v.mag = MaxInt64Mag
         THEN [neg |-> TRUE, mag |-> MinInt64Mag]
         ELSE [neg |-> FALSE, mag |-> MagInc(v.mag)]
    ELSE IF v.mag = Str1
         THEN IntZero
         ELSE [neg |-> TRUE, mag |-> MagDec(v.mag)]

\* strconv.Itoa
Itoa(v) == IF v.neg THEN <<"-">> \o v.mag ELSE v.mag

\* mutant: the error test inverted, every parsed value is reset
getNextCountReset(value) ==
    LET parsed == Atoi(value)
        count  == IF value # <<>> /\ parsed.err THEN parsed.val ELSE IntZero
    IN  Itoa(IntPlusOne(count))

getNextCount(value) ==
    LET parsed == Atoi(value)
        count  == IF value # <<>> /\ ~parsed.err THEN parsed.val ELSE IntZero
    IN  Itoa(IntPlusOne(count))


\* ------------------------------------------------------------------------
\* Data
\* ------------------------------------------------------------------------
Threads == {"t1", "t2"}
NoThread == "none"

Namespaces == {"ns1", "ns2"}

NotificationCountKey == "deployment-manager/notifications"
ReconcileAfterInSync == "deployment-manager/reconcile-after-insync"

SystemTypeNone == ""
SystemTypeAllInOne == "all-in-one"
SystemTypeStandard == "standard"

KindHost == "Host"
KindHostProfile == "HostProfile"
KindPlatformNetwork == "PlatformNetwork"
KindDataNetwork == "DataNetwork"
KindPTPInstance == "PtpInstance"
KindPTPInterface == "PtpInterface"
KindSystem == "System"

\* mutant: the dependency list with the host-profile kind added
systemDependenciesWithProfile ==
    <<KindHost, KindHostProfile, KindPlatformNetwork, KindDataNetwork,
      KindPTPInstance, KindPTPInterface>>

\* mutant: the dependency list without the PTP kinds
systemDependenciesNoPtp ==
    <<KindHost, KindPlatformNetwork, KindDataNetwork>>

systemDependencies ==
    <<KindHost, KindPlatformNetwork, KindDataNetwork, KindPTPInstance, KindPTPInterface>>

\* the kinds the per-object switch of notifyControllers accepts
notifiableKinds ==
    {KindHost, KindHostProfile, KindPlatformNetwork, KindDataNetwork,
     KindPTPInstance, KindPTPInterface}

\* The objects of the cluster store: name, kind and namespace are fixed
Objects == {"h1", "h2", "h3", "hp1", "s1", "s2", "pn1", "dn1", "pi1", "pf1"}

ObjKind(o) ==
    CASE o \in {"h1", "h2", "h3"} -> KindHost
      [] o = "hp1" -> KindHostProfile
      [] o \in {"s1", "s2"} -> KindSystem
      [] o = "pn1" -> KindPlatformNetwork
      [] o = "dn1" -> KindDataNetwork
      [] o = "pi1" -> KindPTPInstance
      [] o = "pf1" -> KindPTPInterface

ObjNamespace(o) == IF o \in {"h3", "s2", "pf1"} THEN "ns2" ELSE "ns1"

\* Go map[string]string: nil or a finite map
EmptyKV == [k \in {} |-> <<>>]
NilMap == [nil |-> TRUE, m |-> EmptyKV]
MakeMap == [nil |-> FALSE, m |-> EmptyKV]

\* m[k]: the zero value "" for a missing key, also on a nil map
MapGet(a, k) == IF k \in DOMAIN a.m THEN a.m[k] ELSE <<>>

\* m[k] = v on a map that is not nil
MapSet(a, k, v) ==
    [nil |-> FALSE,
     m |-> [x \in (DOMAIN a.m) \cup {k} |-> IF x = k THEN v ELSE a.m[x]]]

StrTrue == <<"t", "r", "u", "e">>

InitAnns ==
    {NilMap,
     [nil |-> FALSE, m |-> [k \in {ReconcileAfterInSync} |-> StrTrue]],
     [nil |-> FALSE, m |-> [k \in {NotificationCountKey} |-> <<"9">>]],
     [nil |-> FALSE, m |-> [k \in {NotificationCountKey, ReconcileAfterInSync} |->
                              IF k = NotificationCountKey THEN <<"x">> ELSE StrTrue]]}

\* return values: the error (or value) an operation hands to its caller
Ret(type, msg, cause, val) == [type |-> type, msg |-> msg, cause |-> cause, val |-> val]
NoRet == Ret("none", <<>>, "", 0)
NilErr == Ret("nil", <<>>, "", 0)
\* a returned bool and a returned SystemType: values of a type of their own
\* are kept in a field of their own
RetBool(b) == [type |-> "bool", msg |-> <<>>, cause |-> "", flag |-> b]
RetType(s) == [type |-> "type", msg |-> <<>>, cause |-> "", text |-> s]
\* perrors.Wrap(err, msg)
Wrap(cause, msg) == Ret("error", msg, cause, 0)
NewWaitForMonitor(msg) == Ret("WaitForMonitor", msg, "", 0)
NewClientError(msg) == Ret("ClientError", msg, "", 0)

\* *gophercloud.ServiceClient: nil, or the n-th handle the factory returned
NilClient == 0

\* monitors and the resource each belongs to; m1 and m2 watch the same host
Monitors == {"m1", "m2", "m3"}
MonitorOwner(m) == IF m = "m3" THEN "h2" ELSE "h1"
Messages == {"waiting for unlock", "waiting for inventory"}

\* group, version, kind, namespace and name of the owning resource
BuildMonitorKey(o) == <<"starlingx.windriver.com", "v1", ObjKind(o), ObjNamespace(o), o>>
GetKey(m) == BuildMonitorKey(MonitorOwner(m))

NoOp == [name |-> "none", ns |-> "", arg |-> "", msg |-> ""]
NoLocal == [gvk |-> 0, items |-> <<>>]

VARIABLES
    systems,     \* m.systems: namespace -> SystemNamespace
    monitors,    \* m.monitors: key -> monitor
    mstate,      \* state of every monitor's background task
    lock,        \* m.lock: the thread that holds it, or NoThread
    nextHandle,  \* the next platform client handle the factory returns
    store,       \* the cluster store: object -> annotations and resourceVersion
    crashed,     \* the process has terminated on a panic
    pc, op, ret, \* per thread: position, operation in progress or last, its result
    io,          \* per thread: the cluster calls of the operation, in order
    local,       \* per thread: loop position and listed items
    pre,         \* per thread: the store as it was when the operation was called
    ann0,        \* the annotations every object started with
    built,       \* per namespace: a build succeeded and no reset returned nil since
    lastSet,     \* per namespace: value of the last SetSystemReady that took effect
    value, result \* input and output of the counter derivation

vars == <<systems, monitors, mstate, lock, nextHandle, store, crashed, pc, op, ret,
          io, local, pre, ann0, built, lastSet, value, result>>

regVars == <<systems, monitors, mstate, nextHandle, lastSet>>
countVars == <<value, result>>

NoPre == [o \in {} |-> 0]

InitCommon ==
    /\ systems = [n \in {} |-> 0]
    /\ monitors = [k \in {} |-> 0]
    /\ mstate = [m \in Monitors |-> "idle"]
    /\ lock = NoThread
    /\ nextHandle = 1
    /\ crashed = FALSE
    /\ pc = [t \in Threads |-> "idle"]
    /\ op = [t \in Threads |-> NoOp]
    /\ ret = [t \in Threads |-> NoRet]
    /\ io = [t \in Threads |-> <<>>]
    /\ local = [t \in Threads |-> NoLocal]
    /\ pre = [t \in Threads |-> NoPre]
    /\ built = [n \in Namespaces |-> FALSE]
    /\ lastSet = [n \in Namespaces |-> FALSE]

\* ------------------------------------------------------------------------
\* Counter derivation as a specification of its own
\* ------------------------------------------------------------------------
Alphabet == {"0", "1", "7", "9", "-", "+", "x"}

RECURSIVE StringsUpTo(_)
StringsUpTo(n) ==
    IF n = 0 THEN {<<>>}
    ELSE LET shorter == StringsUpTo(n - 1)
         IN  shorter \cup {Append(s, c) : s \in shorter, c \in Alphabet}

LongInputs ==
    {MaxInt64Mag, MinInt64Mag, <<"-">> \o MinInt64Mag, <<"-">> \o MaxInt64Mag,
     <<"+">> \o MaxInt64Mag, <<"0">> \o MaxInt64Mag, MagInc(MinInt64Mag),
     <<"-">> \o MagInc(MinInt64Mag), MagDec(MaxInt64Mag),
     <<"9","9","9","9","9","9","9","9","9","9","9","9","9","9","9","9","9","9">>,
     <<"9","9","9","9","9","9","9","9","9","9","9","9","9","9","9","9","9","9","9">>,
     <<"n","o","t","-","a","-","n","u","m","b","e","r">>,
     <<" ", "7">>, <<"1", "_", "0">>, <<"0", "x", "1">>, <<"1", ".", "5">>}

CountInputs == StringsUpTo(MaxLen) \cup LongInputs

NoResult == <<"?">>

InitCount ==
    /\ InitCommon
    /\ store = [o \in Objects |-> [annotations |-> NilMap, rv |-> 0]]
    /\ ann0 = NilMap
    /\ value \in CountInputs
    /\ result = NoResult

DeriveCount ==
    /\ result = NoResult
    /\ result' = getNextCount(value)
    /\ UNCHANGED <<regVars, lock, built, store, crashed, pc, op, ret, io, local, pre,
                   ann0, value>>

NextCount == DeriveCount

SpecCount == InitCount /\ [][NextCount]_vars


\* ------------------------------------------------------------------------
\* Threads: calling an operation, returning from it, panicking
\* ------------------------------------------------------------------------
At(t, p) == ~crashed /\ pc[t] = p

\* the caller enters the operation o at position p
Begin(t, o, p) ==
    /\ At(t, "idle")
    /\ pc' = [pc EXCEPT ![t] = p]
    /\ op' = [op EXCEPT ![t] = o]
    /\ ret' = [ret EXCEPT ![t] = NoRet]
    /\ io' = [io EXCEPT ![t] = <<>>]
    /\ local' = [local EXCEPT ![t] = [gvk |-> 1, items |-> <<>>]]
    /\ pre' = [pre EXCEPT ![t] = store]
    /\ UNCHANGED <<lock, crashed, built>>

\* the operation goes on at position p
Continue(t, p, l, ios) ==
    /\ pc' = [pc EXCEPT ![t] = p]
    /\ local' = [local EXCEPT ![t] = l]
    /\ io' = [io EXCEPT ![t] = ios]
    /\ UNCHANGED <<op, ret, pre, lock, crashed, built>>

\* the operation returns r; a deferred Unlock releases the lock it holds
Finish(t, r, ios) ==
    /\ pc' = [pc EXCEPT ![t] = "idle"]
    /\ ret' = [ret EXCEPT ![t] = r]
    /\ local' = [local EXCEPT ![t] = NoLocal]
    /\ io' = [io EXCEPT ![t] = ios]
    /\ pre' = [pre EXCEPT ![t] = NoPre]
    /\ lock' = IF lock = t THEN NoThread ELSE lock
    /\ built' = CASE op[t].name = "ResetPlatformClient" /\ r.type = "nil"
                       -> [built EXCEPT ![op[t].ns] = FALSE]
                  [] op[t].name = "BuildPlatformClient" /\ r.type = "client"
                       -> [built EXCEPT ![op[t].ns] = TRUE]
                  [] OTHER -> built
    /\ UNCHANGED <<op, crashed>>

\* a run-time panic unwinds the call: the deferred Unlock runs and the call
\* never returns; the other goroutines go on until the process ends
Panic(t) ==
    /\ pc' = [pc EXCEPT ![t] = "panicked"]
    /\ lock' = IF lock = t THEN NoThread ELSE lock
    /\ UNCHANGED <<op, ret, io, local, pre, built, crashed>>

Frame == UNCHANGED <<ann0, value, result>>

\* nothing recovers the panic: the runtime ends the process, whatever the
\* other goroutines are doing and whoever holds the lock
fatalpanic ==
    /\ ~crashed
    /\ \E t \in Threads : pc[t] = "panicked"
    /\ crashed' = TRUE
    /\ UNCHANGED <<regVars, store, lock, built, pc, op, ret, io, local, pre>>
    /\ Frame

\* ------------------------------------------------------------------------
\* The cluster store (client.Client): List, Get, Update with optimistic
\* concurrency on the resourceVersion
\* ------------------------------------------------------------------------
Snapshot(o) == [id |-> o, annotations |-> store[o].annotations, rv |-> store[o].rv]

Orderings(S) ==
    {f \in [1..Cardinality(S) -> S] : \A i, j \in 1..Cardinality(S) : i # j => f[i] # f[j]}

\* List(namespace, kind): the instances, in an order the store chooses
ListResults(ns, kind) ==
    LET found == {o \in Objects : ObjNamespace(o) = ns /\ ObjKind(o) = kind}
    IN  {[i \in 1..Cardinality(found) |-> Snapshot(ord[i])] : ord \in Orderings(found)}

\* mutant: the store accepts an update whatever version it was read at
UpdateAcceptedAlways(item) == TRUE

\* Update(object) is accepted when the object was read at the stored version
UpdateAccepted(item) == store[item.id].rv = item.rv

StoreUpdate(item) ==
    [store EXCEPT ![item.id] = [annotations |-> item.annotations, rv |-> @.rv + 1]]

\* why a call to the store fails: the transport, or a stale resourceVersion
UpdateCauses(item) ==
    {"transport"} \cup (IF UpdateAccepted(item) THEN {} ELSE {"conflict"})

\* one call to the store: outcome is "ok" or the cause of its failure
IoCall(call, target, outcome) == [call |-> call, target |-> target, outcome |-> outcome]

\* calls are bounded: no operation starts once an object saw MaxUpdates updates
Budget == \A o \in Objects : store[o].rv < MaxUpdates

\* ------------------------------------------------------------------------
\* notifyControllers (NotifySystemDependencies)
\* ------------------------------------------------------------------------
NotifySystemDependencies(t) ==
    /\ Budget
    /\ \E ns \in Namespaces :
         Begin(t, [name |-> "NotifySystemDependencies", ns |-> ns, arg |-> "", msg |-> ""],
               "nc_list")
    /\ UNCHANGED <<regVars, store>>
    /\ Frame

\* the items of one kind are done: go on to the next kind, or return nil
notifyControllersNext(t, ios) ==
    IF local[t].gvk = Len(systemDependencies)
    THEN Finish(t, NilErr, ios)
    ELSE Continue(t, "nc_list", [gvk |-> local[t].gvk + 1, items |-> <<>>], ios)

\* mutant: the error is logged and the loop goes on
notifyControllersFailedContinue(t, err, ios) ==
    IF pc[t] = "nc_list" \/ Len(local[t].items) = 1
    THEN notifyControllersNext(t, ios)
    ELSE Continue(t, "nc_update", [local[t] EXCEPT !.items = Tail(local[t].items)], ios)

\* a failed List or Update: the wrapped error is returned at once
notifyControllersFailed(t, err, ios) ==
    Finish(t, err, ios)

notifyControllersList(t) ==
    /\ At(t, "nc_list")
    /\ LET kind == systemDependencies[local[t].gvk]
       IN  \/ notifyControllersFailed(t, Wrap("transport", <<"failed to query %s list", kind>>),
                                      Append(io[t], IoCall("List", kind, "transport")))
           \/ \E items \in ListResults(op[t].ns, kind) :
                LET ios == Append(io[t], IoCall("List", kind, "ok"))
                IN  IF items = <<>>
                    THEN notifyControllersNext(t, ios)
                    ELSE Continue(t, "nc_update", [local[t] EXCEPT !.items = items], ios)
    /\ UNCHANGED <<regVars, store>>
    /\ Frame

\* mutant: a new map that holds the counter only
bumpAnnotationsFresh(annotations) ==
    MapSet(MakeMap, NotificationCountKey,
           getNextCount(MapGet(annotations, NotificationCountKey)))

\* the annotations with the notification counter bumped
bumpAnnotations(annotations) ==
    MapSet(annotations, NotificationCountKey,
           getNextCount(MapGet(annotations, NotificationCountKey)))

notifyControllersUpdate(t) ==
    /\ At(t, "nc_update")
    /\ LET item == Head(local[t].items)
           rest == [local[t] EXCEPT !.items = Tail(local[t].items)]
           kind == ObjKind(item.id)
           annotations == IF item.annotations.nil THEN MakeMap ELSE item.annotations
           updated == [item EXCEPT !.annotations = bumpAnnotations(annotations)]
       IN  IF kind \in notifiableKinds
           THEN \/ \E cause \in UpdateCauses(item) :
                     /\ notifyControllersFailed(
                            t, Wrap(cause, <<"failed to notify %s controller", kind>>),
                            Append(io[t], IoCall("Update", item.id, cause)))
                     /\ store' = store
                \/ /\ UpdateAccepted(item)
                   /\ store' = StoreUpdate(updated)
                   /\ LET ios == Append(io[t], IoCall("Update", item.id, "ok"))
                      IN  IF rest.items = <<>>
                          THEN notifyControllersNext(t, ios)
                          ELSE Continue(t, "nc_update", rest, ios)
           ELSE /\ store' = store
                /\ IF rest.items = <<>>
                   THEN notifyControllersNext(t, io[t])
                   ELSE Continue(t, "nc_update", rest, io[t])
    /\ UNCHANGED regVars
    /\ Frame

\* ------------------------------------------------------------------------
\* NotifySystemController
\* ------------------------------------------------------------------------
NotifySystemControllerList(t) ==
    /\ At(t, "sc_list")
    /\ \/ Finish(t, Wrap("transport", <<"failed to query system list">>),
                 Append(io[t], IoCall("List", KindSystem, "transport")))
       \/ \E items \in ListResults(op[t].ns, KindSystem) :
            LET ios == Append(io[t], IoCall("List", KindSystem, "ok"))
            IN  IF items = <<>>
                THEN Finish(t, NilErr, ios)
                ELSE Continue(t, "sc_update", [local[t] EXCEPT !.items = items], ios)
    /\ UNCHANGED <<regVars, store>>
    /\ Frame

NotifySystemControllerUpdate(t) ==
    /\ At(t, "sc_update")
    /\ LET item == Head(local[t].items)
           rest == [local[t] EXCEPT !.items = Tail(local[t].items)]
       IN  IF item.annotations.nil
           THEN \* assignment to an entry in a nil map
                /\ Panic(t)
                /\ store' = store
           ELSE LET updated == [item EXCEPT !.annotations = bumpAnnotations(item.annotations)]
                IN  \/ \E cause \in UpdateCauses(item) :
                         /\ Finish(t, Wrap(cause, <<"failed to notify system controller">>),
                                   Append(io[t], IoCall("Update", item.id, cause)))
                         /\ store' = store
                    \/ /\ UpdateAccepted(item)
                       /\ store' = StoreUpdate(updated)
                       /\ LET ios == Append(io[t], IoCall("Update", item.id, "ok"))
                          IN  IF rest.items = <<>>
                              THEN Finish(t, NilErr, ios)
                              ELSE Continue(t, "sc_update", rest, ios)
    /\ UNCHANGED regVars
    /\ Frame

NotifySystemController(t) ==
    /\ Budget
    /\ \E ns \in Namespaces :
         Begin(t, [name |-> "NotifySystemController", ns |-> ns, arg |-> "", msg |-> ""],
               "sc_list")
    /\ UNCHANGED <<regVars, store>>
    /\ Frame

\* ------------------------------------------------------------------------
\* notifyController (NotifyResource)
\* ------------------------------------------------------------------------
NotifyTargets == {"h1", "hp1", "s1"}

\* a runtime.Object without object metadata, such as a list
NoMetaObject == "list1"

\* client.ObjectKeyFromObject(object) succeeds
HasObjectKey(o) == o \in Objects

NotifyResource(t) ==
    /\ Budget
    /\ \E o \in NotifyTargets \cup {NoMetaObject} :
         Begin(t, [name |-> "NotifyResource",
                   ns |-> IF HasObjectKey(o) THEN ObjNamespace(o) ELSE "",
                   arg |-> o, msg |-> ""],
               "nr_get")
    /\ UNCHANGED <<regVars, store>>
    /\ Frame

\* the key of the object, then the Get: without a key the accessor's error
\* is returned as it is and the store is not called
notifyControllerGet(t) ==
    /\ At(t, "nr_get")
    /\ IF ~HasObjectKey(op[t].arg)
       THEN Finish(t, Ret("error", <<>>, "accessor", 0), io[t])
       ELSE \/ Finish(t, Wrap("transport", <<"failed to query resource %+v", op[t].arg>>),
                      Append(io[t], IoCall("Get", op[t].arg, "transport")))
            \/ Continue(t, "nr_update", [local[t] EXCEPT !.items = <<Snapshot(op[t].arg)>>],
                        Append(io[t], IoCall("Get", op[t].arg, "ok")))
    /\ UNCHANGED <<regVars, store>>
    /\ Frame

notifyControllerUpdate(t) ==
    /\ At(t, "nr_update")
    /\ LET item == Head(local[t].items)
           annotations == IF item.annotations.nil THEN MakeMap ELSE item.annotations
           updated == [item EXCEPT !.annotations = bumpAnnotations(annotations)]
       IN  \/ \E cause \in UpdateCauses(item) :
                /\ Finish(t, Wrap(cause, <<"failed to notify host controller">>),
                          Append(io[t], IoCall("Update", item.id, cause)))
                /\ store' = store
           \/ /\ UpdateAccepted(item)
              /\ store' = StoreUpdate(updated)
              /\ Finish(t, NilErr, Append(io[t], IoCall("Update", item.id, "ok")))
    /\ UNCHANGED regVars
    /\ Frame

\* ------------------------------------------------------------------------
\* The notification cascade, one reconciler at a time
\* ------------------------------------------------------------------------
InitNotify ==
    /\ InitCommon
    /\ ann0 \in InitAnns
    /\ store = [o \in Objects |-> [annotations |-> ann0, rv |-> 0]]
    /\ value = <<>>
    /\ result = NoResult

NextNotify ==
    \E t \in {"t1"} :
       \/ NotifySystemDependencies(t)
       \/ notifyControllersList(t)
       \/ notifyControllersUpdate(t)
       \/ NotifySystemController(t)
       \/ NotifySystemControllerList(t)
       \/ NotifySystemControllerUpdate(t)
       \/ NotifyResource(t)
       \/ notifyControllerGet(t)
       \/ notifyControllerUpdate(t)
       \/ fatalpanic

SpecNotify == InitNotify /\ [][NextNotify]_vars

\* the notifications of two reconcilers in parallel: one notifies the
\* dependencies and the system controller, the other single resources; no
\* notification starts once the store accepted MaxParallel updates
RECURSIVE SumUpdates(_)
SumUpdates(S) ==
    IF S = {} THEN 0
    ELSE LET o == CHOOSE x \in S : TRUE IN store[o].rv + SumUpdates(S \ {o})

ParallelBudget == SumUpdates(Objects) < MaxParallel

NextParallel ==
    \/ \E t \in {"t1"} :
          \/ ParallelBudget /\ NotifySystemDependencies(t)
          \/ notifyControllersList(t)
          \/ notifyControllersUpdate(t)
          \/ ParallelBudget /\ NotifySystemController(t)
          \/ NotifySystemControllerList(t)
          \/ NotifySystemControllerUpdate(t)
    \/ \E t \in {"t2"} :
          \/ ParallelBudget /\ NotifyResource(t)
          \/ notifyControllerGet(t)
          \/ notifyControllerUpdate(t)
    \/ fatalpanic

SpecParallel == InitNotify /\ [][NextParallel]_vars


\* ------------------------------------------------------------------------
\* The registry lock
\* ------------------------------------------------------------------------
Op(name, ns, arg, msg) == [name |-> name, ns |-> ns, arg |-> arg, msg |-> msg]

\* m.lock.Lock(): blocks until the mutex is free
Lock(t) ==
    /\ At(t, "lock")
    /\ lock = NoThread
    /\ lock' = t
    /\ pc' = [pc EXCEPT ![t] = "body"]
    /\ UNCHANGED <<regVars, store, crashed, built, op, ret, io, local, pre>>
    /\ Frame

InBody(t, name) == At(t, "body") /\ op[t].name = name

Entry(client, ready, systemType) ==
    [client |-> client, ready |-> ready, systemType |-> systemType]

\* m.systems[ns] = e
PutEntry(sys, ns, e) ==
    [n \in (DOMAIN sys) \cup {ns} |-> IF n = ns THEN e ELSE sys[n]]

\* ------------------------------------------------------------------------
\* GetPlatformClient / BuildPlatformClient / ResetPlatformClient
\* ------------------------------------------------------------------------
\* mutant: the entry is looked up under the wrong key
getPlatformClientWrongKey(sys, ns) ==
    IF "" \in DOMAIN sys THEN sys[""].client ELSE NilClient

getPlatformClient(sys, ns) ==
    IF ns \in DOMAIN sys THEN sys[ns].client ELSE NilClient

CallGetPlatformClient(t) ==
    /\ \E ns \in Namespaces : Begin(t, Op("GetPlatformClient", ns, "", ""), "lock")
    /\ UNCHANGED <<regVars, store>>
    /\ Frame

GetPlatformClient(t) ==
    /\ InBody(t, "GetPlatformClient")
    /\ Finish(t, Ret("client", <<>>, "", getPlatformClient(systems, op[t].ns)), io[t])
    /\ UNCHANGED <<regVars, store>>
    /\ Frame

\* mutant: a client that is already cached is not replaced
buildPlatformClientKeepPrior(sys, ns, c) ==
    IF ns \notin DOMAIN sys
    THEN PutEntry(sys, ns, Entry(c, FALSE, SystemTypeNone))
    ELSE IF sys[ns].client # NilClient THEN sys
    ELSE [sys EXCEPT ![ns].client = c]

\* the registry with the client of ns set to the new handle c
buildPlatformClient(sys, ns, c) ==
    IF ns \notin DOMAIN sys
    THEN PutEntry(sys, ns, Entry(c, FALSE, SystemTypeNone))
    ELSE [sys EXCEPT ![ns].client = c]

CallBuildPlatformClient(t) ==
    /\ nextHandle <= MaxHandles
    /\ \E ns \in Namespaces : Begin(t, Op("BuildPlatformClient", ns, "", ""), "lock")
    /\ UNCHANGED <<regVars, store>>
    /\ Frame

BuildPlatformClient(t) ==
    /\ InBody(t, "BuildPlatformClient")
    /\ \/ /\ Finish(t, NewClientError(<<"failed to build platform client">>), io[t])
          /\ UNCHANGED <<systems, nextHandle>>
       \/ /\ systems' = buildPlatformClient(systems, op[t].ns, nextHandle)
          /\ nextHandle' = nextHandle + 1
          /\ Finish(t, Ret("client", <<>>, "", nextHandle), io[t])
    /\ UNCHANGED <<monitors, mstate, lastSet, store>>
    /\ Frame

\* mutant: the cached client is not cleared
resetPlatformClientKeep(sys, ns) ==
    IF ns \in DOMAIN sys
    THEN IF sys[ns].client = NilClient
         THEN [systems |-> sys, notify |-> FALSE]
         ELSE [systems |-> sys, notify |-> TRUE]
    ELSE [systems |-> sys, notify |-> FALSE]

\* mutant: no test for a client that is already reset
resetPlatformClientAlways(sys, ns) ==
    IF ns \in DOMAIN sys
    THEN [systems |-> [sys EXCEPT ![ns].client = NilClient], notify |-> TRUE]
    ELSE [systems |-> sys, notify |-> FALSE]

\* the registry after the reset, and whether the system controller is notified
resetPlatformClient(sys, ns) ==
    IF ns \in DOMAIN sys
    THEN IF sys[ns].client = NilClient
         THEN [systems |-> sys, notify |-> FALSE]
         ELSE [systems |-> [sys EXCEPT ![ns].client = NilClient], notify |-> TRUE]
    ELSE [systems |-> sys, notify |-> FALSE]

CallResetPlatformClient(t) ==
    /\ \E ns \in Namespaces : Begin(t, Op("ResetPlatformClient", ns, "", ""), "lock")
    /\ UNCHANGED <<regVars, store>>
    /\ Frame

\* the body up to the call of NotifySystemController, which runs with the
\* lock still held
ResetPlatformClient(t) ==
    /\ InBody(t, "ResetPlatformClient")
    /\ LET r == resetPlatformClient(systems, op[t].ns)
       IN  /\ systems' = r.systems
           /\ IF r.notify
              THEN Continue(t, "sc_list", local[t], io[t])
              ELSE Finish(t, NilErr, io[t])
    /\ UNCHANGED <<monitors, mstate, nextHandle, lastSet, store>>
    /\ Frame

\* ------------------------------------------------------------------------
\* SetSystemReady / GetSystemReady / SetSystemType / GetSystemType
\* ------------------------------------------------------------------------
\* mutant: the flag of an existing entry is written to a copy
setSystemReadyCopy(sys, ns, v) ==
    IF ns \notin DOMAIN sys
    THEN PutEntry(sys, ns, Entry(NilClient, v, SystemTypeNone))
    ELSE sys

setSystemReady(sys, ns, v) ==
    IF ns \notin DOMAIN sys
    THEN PutEntry(sys, ns, Entry(NilClient, v, SystemTypeNone))
    ELSE [sys EXCEPT ![ns].ready = v]

getSystemReady(sys, ns) ==
    IF ns \notin DOMAIN sys THEN FALSE ELSE sys[ns].ready

\* mutant: the entry is replaced by a new one that holds the type only
setSystemTypeReplace(sys, ns, v) ==
    PutEntry(sys, ns, Entry(NilClient, FALSE, v))

\* mutant: the type is set in the entry of every namespace
setSystemTypeAll(sys, ns, v) ==
    [n \in (DOMAIN sys) \cup {ns} |->
       IF n \in DOMAIN sys THEN [sys[n] EXCEPT !.systemType = v]
       ELSE Entry(NilClient, FALSE, v)]

setSystemType(sys, ns, v) ==
    IF ns \notin DOMAIN sys
    THEN PutEntry(sys, ns, Entry(NilClient, FALSE, v))
    ELSE IF sys[ns].systemType # v
    THEN [sys EXCEPT ![ns].systemType = v]
    ELSE sys

\* mutant: a namespace without an entry reads as the standard type
getSystemTypeStandard(sys, ns) ==
    IF ns \notin DOMAIN sys THEN SystemTypeStandard ELSE sys[ns].systemType

getSystemType(sys, ns) ==
    IF ns \notin DOMAIN sys THEN SystemTypeNone ELSE sys[ns].systemType

CallSetSystemReady(t) ==
    /\ \E ns \in Namespaces, v \in BOOLEAN :
         Begin(t, Op("SetSystemReady", ns, v, ""), "lock")
    /\ UNCHANGED <<regVars, store>>
    /\ Frame

SetSystemReady(t) ==
    /\ InBody(t, "SetSystemReady")
    /\ systems' = setSystemReady(systems, op[t].ns, op[t].arg)
    /\ lastSet' = [lastSet EXCEPT ![op[t].ns] = op[t].arg]
    /\ Finish(t, Ret("void", <<>>, "", 0), io[t])
    /\ UNCHANGED <<monitors, mstate, nextHandle, store>>
    /\ Frame

CallGetSystemReady(t) ==
    /\ \E ns \in Namespaces : Begin(t, Op("GetSystemReady", ns, "", ""), "lock")
    /\ UNCHANGED <<regVars, store>>
    /\ Frame

GetSystemReady(t) ==
    /\ InBody(t, "GetSystemReady")
    /\ Finish(t, RetBool(getSystemReady(systems, op[t].ns)), io[t])
    /\ UNCHANGED <<regVars, store>>
    /\ Frame

CallSetSystemType(t) ==
    /\ \E ns \in Namespaces, v \in {SystemTypeAllInOne, SystemTypeStandard} :
         Begin(t, Op("SetSystemType", ns, v, ""), "lock")
    /\ UNCHANGED <<regVars, store>>
    /\ Frame

SetSystemType(t) ==
    /\ InBody(t, "SetSystemType")
    /\ systems' = setSystemType(systems, op[t].ns, op[t].arg)
    /\ Finish(t, Ret("void", <<>>, "", 0), io[t])
    /\ UNCHANGED <<monitors, mstate, nextHandle, lastSet, store>>
    /\ Frame

CallGetSystemType(t) ==
    /\ \E ns \in Namespaces : Begin(t, Op("GetSystemType", ns, "", ""), "lock")
    /\ UNCHANGED <<regVars, store>>
    /\ Frame

GetSystemType(t) ==
    /\ InBody(t, "GetSystemType")
    /\ Finish(t, RetType(getSystemType(systems, op[t].ns)), io[t])
    /\ UNCHANGED <<regVars, store>>
    /\ Frame

\* ------------------------------------------------------------------------
\* StartMonitor / CancelMonitor
\* ------------------------------------------------------------------------
\* Monitor.Start: the background task runs
MonitorStart(st, m) == [st EXCEPT ![m] = "running"]

\* Monitor.Stop: the background task is told to stop
MonitorStop(st, m) == [st EXCEPT ![m] = "stopped"]

\* mutant: the monitor is started without being registered
startMonitorUnregistered(mons, m) == mons

\* mutant: a monitor already registered under the key is kept
startMonitorKeepFirst(mons, m) ==
    IF GetKey(m) \in DOMAIN mons THEN mons
    ELSE [k \in (DOMAIN mons) \cup {GetKey(m)} |-> IF k = GetKey(m) THEN m ELSE mons[k]]

\* m.monitors[key] = monitor
startMonitor(mons, m) ==
    [k \in (DOMAIN mons) \cup {GetKey(m)} |-> IF k = GetKey(m) THEN m ELSE mons[k]]

\* a reconciler arms a monitor of its own that is not running
CallStartMonitor(t) ==
    /\ \E m \in Monitors, msg \in Messages :
         /\ mstate[m] # "running"
         /\ \A u \in Threads : ~(pc[u] # "idle" /\ op[u].name = "StartMonitor" /\ op[u].arg = m)
         /\ Begin(t, Op("StartMonitor", ObjNamespace(MonitorOwner(m)), m, msg), "lock")
    /\ UNCHANGED <<regVars, store>>
    /\ Frame

StartMonitor(t) ==
    /\ InBody(t, "StartMonitor")
    /\ monitors' = startMonitor(monitors, op[t].arg)
    /\ mstate' = MonitorStart(mstate, op[t].arg)
    /\ Finish(t, NewWaitForMonitor(<<op[t].msg>>), io[t])
    /\ UNCHANGED <<systems, nextHandle, lastSet, store>>
    /\ Frame

\* mutant: the looked-up monitor is stopped without the ok test
cancelMonitorUnchecked(mons, st, key) ==
    IF key \in DOMAIN mons
    THEN [monitors |-> [k \in (DOMAIN mons) \ {key} |-> mons[k]],
          mstate |-> MonitorStop(st, mons[key]), panic |-> FALSE]
    ELSE [monitors |-> mons, mstate |-> st, panic |-> TRUE]

\* mutant: the monitor is stopped but its entry is not deleted
cancelMonitorKeepEntry(mons, st, key) ==
    IF key \in DOMAIN mons
    THEN [monitors |-> mons, mstate |-> MonitorStop(st, mons[key]), panic |-> FALSE]
    ELSE [monitors |-> mons, mstate |-> st, panic |-> FALSE]

\* the monitor registered under key, if any, is stopped and removed
cancelMonitor(mons, st, key) ==
    IF key \in DOMAIN mons
    THEN [monitors |-> [k \in (DOMAIN mons) \ {key} |-> mons[k]],
          mstate |-> MonitorStop(st, mons[key]), panic |-> FALSE]
    ELSE [monitors |-> mons, mstate |-> st, panic |-> FALSE]

CancelTargets == {"h1", "h2", "h3"}

CallCancelMonitor(t) ==
    /\ \E o \in CancelTargets : Begin(t, Op("CancelMonitor", ObjNamespace(o), o, ""), "lock")
    /\ UNCHANGED <<regVars, store>>
    /\ Frame

CancelMonitor(t) ==
    /\ InBody(t, "CancelMonitor")
    /\ LET r == cancelMonitor(monitors, mstate, BuildMonitorKey(op[t].arg))
       IN  IF r.panic
           THEN Panic(t) /\ UNCHANGED <<monitors, mstate>>
           ELSE /\ monitors' = r.monitors
                /\ mstate' = r.mstate
                /\ Finish(t, Ret("void", <<>>, "", 0), io[t])
    /\ UNCHANGED <<systems, nextHandle, lastSet, store>>
    /\ Frame

\* ------------------------------------------------------------------------
\* Specifications of the registry
\* ------------------------------------------------------------------------
InitRegistry ==
    /\ InitCommon
    /\ ann0 = NilMap
    /\ store = [o \in Objects |-> [annotations |-> ann0, rv |-> 0]]
    /\ value = <<>>
    /\ result = NoResult

\* the platform client of a namespace: build, get and reset, one call at a
\* time, with the fields of the entry set by the other writers
NextClient ==
    \E t \in {"t1"} :
       \/ Lock(t)
       \/ CallGetPlatformClient(t)
       \/ GetPlatformClient(t)
       \/ CallBuildPlatformClient(t)
       \/ BuildPlatformClient(t)
       \/ CallResetPlatformClient(t)
       \/ ResetPlatformClient(t)
       \/ NotifySystemControllerList(t)
       \/ NotifySystemControllerUpdate(t)
       \/ CallSetSystemReady(t)
       \/ SetSystemReady(t)
       \/ CallSetSystemType(t)
       \/ SetSystemType(t)
       \/ fatalpanic

SpecClient == InitNotify /\ [][NextClient]_vars

\* readiness and system type of a namespace, by two reconcilers
NextReady ==
    \E t \in Threads :
       \/ Lock(t)
       \/ CallSetSystemReady(t)
       \/ SetSystemReady(t)
       \/ CallGetSystemReady(t)
       \/ GetSystemReady(t)
       \/ CallSetSystemType(t)
       \/ SetSystemType(t)
       \/ CallGetSystemType(t)
       \/ GetSystemType(t)

SpecReady == InitRegistry /\ [][NextReady]_vars

\* the three reads of the registry by two reconcilers, one of which also
\* makes the writes
NextRead ==
    \/ \E t \in Threads :
          \/ Lock(t)
          \/ CallGetPlatformClient(t)
          \/ GetPlatformClient(t)
          \/ CallGetSystemReady(t)
          \/ GetSystemReady(t)
          \/ CallGetSystemType(t)
          \/ GetSystemType(t)
    \/ \E t \in {"t1"} :
          \/ CallBuildPlatformClient(t)
          \/ BuildPlatformClient(t)
          \/ CallSetSystemReady(t)
          \/ SetSystemReady(t)
          \/ CallSetSystemType(t)
          \/ SetSystemType(t)

SpecRead == InitRegistry /\ [][NextRead]_vars

\* resets of the platform client by two reconcilers, one of which also
\* builds the client
NextReset ==
    \/ \E t \in Threads :
          \/ Lock(t)
          \/ CallResetPlatformClient(t)
          \/ ResetPlatformClient(t)
          \/ NotifySystemControllerList(t)
          \/ NotifySystemControllerUpdate(t)
    \/ \E t \in {"t1"} :
          \/ CallBuildPlatformClient(t)
          \/ BuildPlatformClient(t)
    \/ fatalpanic

SpecReset == InitNotify /\ [][NextReset]_vars

\* every operation of the registry: the calls of the reconciler of the
\* system, which builds the client, sets the fields and starts the monitor
\* of a host, and the calls of the reconciler of a host, which reads and
\* cancels the monitor; both reset the client.
InitAll ==
    /\ InitCommon
    /\ ann0 \in {a \in InitAnns : ReconcileAfterInSync \notin DOMAIN a.m}
    /\ store = [o \in Objects |-> [annotations |-> ann0, rv |-> 0]]
    /\ value = <<>>
    /\ result = NoResult

\* the steps of a call that has the lock
InLock(t) ==
    \/ GetPlatformClient(t)
    \/ BuildPlatformClient(t)
    \/ ResetPlatformClient(t)
    \/ NotifySystemControllerList(t)
    \/ NotifySystemControllerUpdate(t)
    \/ SetSystemReady(t)
    \/ GetSystemReady(t)
    \/ SetSystemType(t)
    \/ GetSystemType(t)
    \/ StartMonitor(t)
    \/ CancelMonitor(t)

\* the calls of the reconciler of the system
CallsOfSystem(t) ==
    \/ CallBuildPlatformClient(t)
    \/ CallSetSystemReady(t)
    \/ CallSetSystemType(t) /\ op'[t].arg = SystemTypeStandard
    \/ CallStartMonitor(t) /\ op'[t].arg = "m1"

\* the calls of the reconciler of a host
CallsOfHost(t) ==
    \/ CallGetPlatformClient(t)
    \/ CallGetSystemReady(t)
    \/ CallGetSystemType(t)
    \/ CallCancelMonitor(t) /\ op'[t].arg = "h1"

NextAll ==
    \E t \in {"t1"} :
       \/ Lock(t)
       \/ InLock(t)
       \/ CallResetPlatformClient(t)
       \/ CallsOfSystem(t)
       \/ CallsOfHost(t)
       \/ fatalpanic

SpecAll == InitAll /\ [][NextAll]_vars

\* the two reconcilers in parallel, on one namespace
NextLive ==
    \/ \E t \in Threads :
          \/ Lock(t)
          \/ InLock(t)
          \/ CallResetPlatformClient(t) /\ op'[t].ns = "ns1"
    \/ CallsOfSystem("t1") /\ op'["t1"].ns = "ns1"
    \/ CallsOfHost("t2") /\ op'["t2"].ns = "ns1"
    \/ fatalpanic

\* sync.Mutex hands the lock to a caller that keeps waiting for it, and a
\* call that has the lock takes its next step (each of these steps changes
\* the position of the call or adds a call to the store); a process that
\* panicked ends
Fairness ==
    /\ \A t \in Threads : SF_<<pc, io>>(Lock(t)) /\ WF_<<pc, io>>(InLock(t))
    /\ WF_crashed(fatalpanic)

SpecLive == InitAll /\ [][NextLive]_vars /\ Fairness

\* the monitor registry, by two reconcilers
NextMonitor ==
    \E t \in Threads :
       \/ Lock(t)
       \/ CallStartMonitor(t)
       \/ StartMonitor(t)
       \/ CallCancelMonitor(t)
       \/ CancelMonitor(t)

SpecMonitor == InitRegistry /\ [][NextMonitor]_vars

\* ========================================================================
\* Properties
\* ========================================================================
\* thread t returns from the operation called name in this step
Returns(t, name) == op[t].name = name /\ pc[t] # "idle" /\ pc'[t] = "idle"

OkUpdates(ios) == {i \in 1..Len(ios) : ios[i].call = "Update" /\ ios[i].outcome = "ok"}
FailedCalls(ios) == {i \in 1..Len(ios) : ios[i].outcome # "ok"}
Updated(ios) == {ios[i].target : i \in OkUpdates(ios)}

\* the annotations after one bump of the notification counter
Bumped(a) ==
    [nil |-> FALSE,
     m |-> [k \in (DOMAIN a.m) \cup {NotificationCountKey} |->
              IF k = NotificationCountKey
              THEN getNextCount(MapGet(a, NotificationCountKey))
              ELSE a.m[k]]]

BumpedOnce(before, after) ==
    /\ after.annotations = Bumped(before.annotations)
    /\ after.rv = before.rv + 1

\* C1: GetPlatformClient(n) is nil as long as no BuildPlatformClient(n) has
\* succeeded, and again from a ResetPlatformClient(n) that returned nil until
\* the next successful build: both what a call would return in every state
\* and what every call does return.
C1_ClientAbsentUntilBuilt ==
    /\ [](\A n \in Namespaces : ~built[n] => getPlatformClient(systems, n) = NilClient)
    /\ [][\A t \in Threads :
            (Returns(t, "GetPlatformClient") /\ ~built[op[t].ns]) =>
               (ret'[t].type = "client" /\ ret'[t].val = NilClient)]_vars

C1_Witness ==
    \E t \in Threads :
       /\ op[t] = Op("GetPlatformClient", "ns1", "", "")
       /\ pc[t] = "idle" /\ ret[t].val = NilClient
       /\ "ns1" \in DOMAIN systems /\ ~built["ns1"]
       /\ nextHandle > 1 /\ store["s1"].rv >= 1

\* C2: a ResetPlatformClient(n) that finds no cached client for n returns nil,
\* leaves the registry as it is and calls the cluster store not at all.
C2_ResetWithoutClientIsNoOp ==
    [][\A t \in Threads :
         (/\ InBody(t, "ResetPlatformClient")
          /\ getPlatformClient(systems, op[t].ns) = NilClient
          /\ pc'[t] # "body") =>
            /\ pc'[t] = "idle" /\ ret'[t] = NilErr
            /\ io'[t] = <<>>
            /\ systems' = systems /\ store' = store /\ ~crashed']_vars

C2_Witness ==
    \E t \in Threads :
       /\ op[t] = Op("ResetPlatformClient", "ns1", "", "")
       /\ pc[t] = "idle" /\ ret[t] = NilErr /\ io[t] = <<>>
       /\ "ns1" \in DOMAIN systems /\ systems["ns1"].client = NilClient
       /\ ~built["ns1"] /\ store["s1"].rv >= 1

\* C3: a BuildPlatformClient(n) that fails returns a client error and leaves
\* the registry as it was, so that GetPlatformClient(n) returns what it
\* returned before; one that succeeds returns a new handle, stored in place
\* of any prior one, which is what GetPlatformClient(n) then returns.
C3_BuildStoresOrLeaves ==
    [][\A t \in Threads :
         Returns(t, "BuildPlatformClient") =>
            IF ret'[t].type = "ClientError"
            THEN /\ systems' = systems
                 /\ getPlatformClient(systems', op[t].ns) = getPlatformClient(systems, op[t].ns)
            ELSE /\ ret'[t].type = "client"
                 /\ ret'[t].val # NilClient
                 /\ ret'[t].val # getPlatformClient(systems, op[t].ns)
                 /\ systems'[op[t].ns].client = ret'[t].val
                 /\ getPlatformClient(systems', op[t].ns) = ret'[t].val]_vars

C3_Witness ==
    \E t \in Threads :
       /\ op[t] = Op("BuildPlatformClient", "ns1", "", "")
       /\ pc[t] = "idle" /\ ret[t].type = "ClientError"
       /\ nextHandle = 2 /\ getPlatformClient(systems, "ns1") = 1

\* C4: StartMonitor always returns the WaitForMonitor signal with the message
\* it was given, and on return the registry maps the monitor's key to that
\* monitor, which is running.
C4_StartMonitorPauses ==
    /\ [](\A t \in Threads :
            (op[t].name = "StartMonitor" /\ pc[t] = "idle") =>
               ret[t].type = "WaitForMonitor")
    /\ [][\A t \in Threads :
            Returns(t, "StartMonitor") =>
               /\ ret'[t] = Ret("WaitForMonitor", <<op[t].msg>>, "", 0)
               /\ GetKey(op[t].arg) \in DOMAIN monitors'
               /\ monitors'[GetKey(op[t].arg)] = op[t].arg
               /\ mstate'[op[t].arg] = "running"]_vars

C4_Witness ==
    \E t \in Threads :
       /\ op[t].name = "StartMonitor" /\ op[t].arg = "m2"
       /\ pc[t] = "idle" /\ ret[t].type = "WaitForMonitor"
       /\ ret[t].msg = <<"waiting for inventory">>
       /\ monitors[GetKey("m2")] = "m2" /\ mstate["m2"] = "running"

\* C5: CancelMonitor for a resource with no registered monitor changes
\* nothing and stops nothing; and after any CancelMonitor no monitor is
\* registered for the resource, so a second call in a row is that no-op.
C5_CancelWithoutMonitorIsNoOp ==
    /\ [][\A t \in Threads :
            (/\ InBody(t, "CancelMonitor")
             /\ BuildMonitorKey(op[t].arg) \notin DOMAIN monitors
             /\ pc'[t] # "body") =>
               /\ pc'[t] = "idle" /\ ret'[t].type = "void"
               /\ monitors' = monitors /\ mstate' = mstate
               /\ systems' = systems /\ store' = store /\ ~crashed']_vars
    /\ [][\A t \in Threads :
            Returns(t, "CancelMonitor") =>
               BuildMonitorKey(op[t].arg) \notin DOMAIN monitors']_vars

C5_Witness ==
    /\ \A t \in Threads :
          op[t] = Op("CancelMonitor", "ns1", "h1", "") /\ pc[t] = "idle"
    /\ mstate["m1"] = "stopped" /\ mstate["m3"] = "running"
    /\ DOMAIN monitors = {GetKey("m3")}

IsDecimalInteger(s) ==
    LET body == IF s # <<>> /\ s[1] \in {"+", "-"} THEN Tail(s) ELSE s
    IN  body # <<>> /\ AllDigits(body)

\* decimal text of k + 1 for the decimal text s of an integer k of any size
DecimalSuccessor(s) ==
    LET body == IF s[1] \in {"+", "-"} THEN Tail(s) ELSE s
        mag  == StripZeros(body)
    IN  IF s[1] # "-" \/ mag = <<"0">> THEN MagInc(mag)
        ELSE IF mag = Str1 THEN <<"0">>
        ELSE <<"-">> \o MagDec(mag)

NextCountReference(s) ==
    IF s = <<>> THEN Str1
    ELSE IF IsDecimalInteger(s) THEN DecimalSuccessor(s)
    ELSE Str1

\* C7: getNextCount equals the reference function: "" yields "1", the text
\* of a decimal integer k yields the text of k + 1, anything else yields "1".
C7_NextCountIsReference ==
    result # NoResult => result = NextCountReference(value)

\* C9: SetSystemReady and GetSystemReady of parallel callers take effect one
\* at a time: at most one caller is inside the lock, the flag of a namespace
\* is always the value of the last SetSystemReady that took effect, and every
\* GetSystemReady returns that value.
C9_ReadyOneAtATime ==
    /\ [](/\ Cardinality({t \in Threads : pc[t] = "body"}) <= 1
          /\ \A t \in Threads : pc[t] = "body" <=> lock = t)
    /\ [](\A n \in Namespaces : getSystemReady(systems, n) = lastSet[n])
    /\ [][\A t \in Threads :
            Returns(t, "GetSystemReady") =>
               (ret'[t].type = "bool" /\ ret'[t].flag = lastSet[op[t].ns])]_vars

C9_Witness ==
    /\ op["t1"] = Op("SetSystemReady", "ns1", TRUE, "") /\ pc["t1"] = "idle"
    /\ op["t2"] = Op("GetSystemReady", "ns1", "", "") /\ pc["t2"] = "idle"
    /\ ret["t2"] = RetBool(TRUE)
    /\ systems["ns1"].systemType = SystemTypeStandard

DependencyKinds == {"Host", "PlatformNetwork", "DataNetwork", "PtpInstance", "PtpInterface"}

\* C6: a NotifySystemDependencies(n) that returns nil has bumped the counter
\* exactly once on every instance of the five dependency kinds in namespace n
\* and has left every object of every other namespace as it was.
C6_DependenciesNotifiedOnce ==
    [][\A t \in Threads :
         (Returns(t, "NotifySystemDependencies") /\ ret'[t].type = "nil") =>
            \A o \in Objects :
               /\ (ObjNamespace(o) = op[t].ns /\ ObjKind(o) \in DependencyKinds)
                     => BumpedOnce(pre[t][o], store'[o])
               /\ ObjNamespace(o) # op[t].ns => store'[o] = pre[t][o]]_vars

C6_Witness ==
    \E t \in Threads :
       /\ op[t].name = "NotifySystemDependencies" /\ op[t].ns = "ns1"
       /\ pc[t] = "idle" /\ ret[t].type = "nil"
       /\ Updated(io[t]) = {"h1", "h2", "pn1", "dn1", "pi1"}
       /\ store["h1"].rv = 1 /\ store["h3"].rv = 0

\* decimal text of a natural number
RECURSIVE DecimalText(_)
DecimalText(k) ==
    IF k < 10 THEN <<DigitChars[k + 1]>>
    ELSE DecimalText(k \div 10) \o <<DigitChars[(k % 10) + 1]>>

\* value of a short text of decimal digits
RECURSIVE TextValue(_)
TextValue(s) ==
    IF s = <<>> THEN 0
    ELSE 10 * TextValue(SubSeq(s, 1, Len(s) - 1)) + DigitVal(s[Len(s)])

CountOf(o) == MapGet(store[o].annotations, NotificationCountKey)

\* C8: starting without annotations, the counter of a resource after its
\* k-th successful bump is the decimal text of k, and every write of a
\* resource strictly increases its counter.
C8_CounterIsBumpCount ==
    /\ [](ann0 = NilMap =>
            \A o \in Objects :
               IF store[o].rv = 0
               THEN store[o].annotations = NilMap
               ELSE CountOf(o) = DecimalText(store[o].rv))
    /\ [][ann0 = NilMap =>
            \A o \in Objects :
               store'[o] # store[o] =>
                  /\ AllDigits(CountOf(o)') /\ CountOf(o)' # <<>>
                  /\ TextValue(CountOf(o)') > TextValue(CountOf(o))]_vars

C8_Witness ==
    /\ ann0 = NilMap
    /\ store["s1"].rv = 2 /\ CountOf("s1") = <<"2">>
    /\ \E t \in Threads : op[t].name = "NotifySystemController" /\ ret[t].type = "nil"

\* C10: NotifySystemDependencies is fail-fast with visible partial effect.
\* The first failing List or Update is the last call of the operation and its
\* error is what the caller gets; the failing step writes nothing, what was
\* updated before stays bumped, everything else is as before the call; and
\* nothing is written once the operation has returned.
C10_FailFast ==
    /\ [](\A t \in Threads :
            op[t].name = "NotifySystemDependencies" =>
               /\ FailedCalls(io[t]) # {} =>
                     /\ FailedCalls(io[t]) = {Len(io[t])}
                     /\ pc[t] = "idle"
                     /\ ret[t].type = "error"
                     /\ ret[t].cause = io[t][Len(io[t])].outcome
               /\ ret[t].type = "error" => FailedCalls(io[t]) # {})
    /\ [][\A t \in Threads :
            (Returns(t, "NotifySystemDependencies") /\ ret'[t].type = "error") =>
               /\ store' = store
               /\ \A o \in Objects :
                     IF o \in Updated(io[t])
                     THEN BumpedOnce(pre[t][o], store'[o])
                     ELSE store'[o] = pre[t][o]]_vars
    /\ [][(\A t \in Threads : pc[t] = "idle") => store' = store]_vars

C10_Witness ==
    \E t \in Threads :
       /\ op[t].name = "NotifySystemDependencies"
       /\ pc[t] = "idle" /\ ret[t].type = "error"
       /\ io[t][Len(io[t])].call = "Update"
       /\ Cardinality(Updated(io[t])) >= 2
       /\ \A o \in Updated(io[t]) : store[o].rv = 1


SystemsOf(ns) == {o \in Objects : ObjKind(o) = "System" /\ ObjNamespace(o) = ns}

\* C11: NotifySystemController(n) bumps the counter of every system resource
\* of namespace n whatever annotations it carries (none at all gives "1", a
\* malformed counter gives "1") and never terminates the process.
C11_SystemControllerBumpsAnyAnnotations ==
    /\ [](\A t \in Threads : ~(op[t].name = "NotifySystemController" /\ pc[t] = "panicked"))
    /\ [][\A t \in Threads :
            (Returns(t, "NotifySystemController") /\ ret'[t].type = "nil") =>
               \A o \in SystemsOf(op[t].ns) : BumpedOnce(pre[t][o], store'[o])]_vars

\* the entry of a namespace as the read operations see it
FieldsOf(sys, n) ==
    IF n \in DOMAIN sys THEN sys[n] ELSE Entry(NilClient, FALSE, SystemTypeNone)

\* thread t runs the body of the operation called name in this step
RunsBody(t, name) == InBody(t, name) /\ pc'[t] # "body"

\* C12: every registry write changes only the field it names and keeps the
\* rest of the namespace's entry: SetSystemReady keeps client and type,
\* SetSystemType keeps client and flag, ResetPlatformClient keeps flag and
\* type; the registry holds one entry per namespace.
C12_WritesMergeIntoEntry ==
    /\ [](DOMAIN systems \subseteq Namespaces)
    /\ [][\A t \in Threads :
            LET before == FieldsOf(systems, op[t].ns)
                after  == FieldsOf(systems', op[t].ns)
            IN  /\ RunsBody(t, "SetSystemReady") =>
                      /\ after.ready = op[t].arg
                      /\ after.client = before.client
                      /\ after.systemType = before.systemType
                /\ RunsBody(t, "SetSystemType") =>
                      /\ after.systemType = op[t].arg
                      /\ after.client = before.client
                      /\ after.ready = before.ready
                /\ RunsBody(t, "ResetPlatformClient") =>
                      /\ after.client = NilClient
                      /\ after.ready = before.ready
                      /\ after.systemType = before.systemType]_vars

C12_Witness ==
    \E t \in Threads :
       /\ op[t] = Op("SetSystemType", "ns1", SystemTypeStandard, "")
       /\ pc[t] = "idle"
       /\ systems["ns1"] = Entry(1, TRUE, SystemTypeStandard)

\* C13: no operation holds the registry lock while one of its calls to the
\* cluster store is in progress.
C13_NoStoreCallUnderLock ==
    \A t \in Threads :
       pc[t] \in {"sc_list", "sc_update", "nc_list", "nc_update", "nr_get", "nr_update"}
          => lock # t

\* C14: a ResetPlatformClient(n) that finds a cached client clears it before
\* it notifies, and when it returns nil the client of n is nil, every system
\* resource of namespace n is bumped exactly once and no other object is
\* written.
C14_ResetClearsThenNotifies ==
    /\ [](\A t \in Threads :
            (op[t].name = "ResetPlatformClient" /\ pc[t] \in {"sc_list", "sc_update"})
               => getPlatformClient(systems, op[t].ns) = NilClient)
    /\ [][\A t \in Threads :
            (/\ Returns(t, "ResetPlatformClient")
             /\ pc[t] \in {"sc_list", "sc_update"}
             /\ ret'[t].type = "nil") =>
               /\ getPlatformClient(systems', op[t].ns) = NilClient
               /\ \A o \in Objects :
                     IF o \in SystemsOf(op[t].ns)
                     THEN BumpedOnce(pre[t][o], store'[o])
                     ELSE store'[o] = pre[t][o]]_vars

C14_Witness ==
    \E t \in Threads :
       /\ op[t] = Op("ResetPlatformClient", "ns1", "", "")
       /\ pc[t] = "idle" /\ ret[t] = NilErr
       /\ Updated(io[t]) = {"s1"}
       /\ systems["ns1"].client = NilClient
       /\ store["s1"].rv = 1 /\ store["s2"].rv = 0


MonitorKeys == {BuildMonitorKey(o) : o \in CancelTargets}

\* C15: CancelMonitor for a resource with a registered monitor stops that
\* monitor and removes its entry, and leaves the monitor of every other key
\* registered and in the state it was in, whoever started it.
C15_CancelStopsAndRemoves ==
    [][\A t \in Threads :
         LET key == BuildMonitorKey(op[t].arg)
         IN  (RunsBody(t, "CancelMonitor") /\ key \in DOMAIN monitors) =>
                /\ pc'[t] = "idle"
                /\ key \notin DOMAIN monitors'
                /\ mstate'[monitors[key]] = "stopped"
                /\ \A k \in (DOMAIN monitors) \ {key} :
                      /\ k \in DOMAIN monitors'
                      /\ monitors'[k] = monitors[k]
                      /\ mstate'[monitors[k]] = mstate[monitors[k]]]_vars

C15_Witness ==
    /\ op["t1"].name = "StartMonitor" /\ op["t1"].arg = "m1" /\ pc["t1"] = "idle"
    /\ op["t2"] = Op("CancelMonitor", "ns1", "h1", "") /\ pc["t2"] = "idle"
    /\ mstate["m1"] = "stopped" /\ mstate["m2"] = "idle"
    /\ DOMAIN monitors = {GetKey("m3")} /\ mstate["m3"] = "running"

\* the monitor registered under key k, or "none"
Registered(mons, k) == IF k \in DOMAIN mons THEN mons[k] ELSE "none"

\* C16: StartMonitor replaces what was registered under the monitor's key:
\* the registry holds one monitor per key, after StartMonitor(m) it is the
\* registry of before with m under m's key, and the entry of a key changes
\* only in a StartMonitor or a CancelMonitor for that key.
C16_StartReplacesEntry ==
    /\ [](\A k \in DOMAIN monitors :
            monitors[k] \in Monitors /\ GetKey(monitors[k]) = k)
    /\ [][\A t \in Threads :
            Returns(t, "StartMonitor") =>
               /\ DOMAIN monitors' = (DOMAIN monitors) \cup {GetKey(op[t].arg)}
               /\ \A k \in DOMAIN monitors' :
                     monitors'[k] = IF k = GetKey(op[t].arg) THEN op[t].arg ELSE monitors[k]]_vars
    /\ [][\A k \in MonitorKeys :
            Registered(monitors', k) # Registered(monitors, k) =>
               \E t \in Threads :
                  /\ pc[t] = "body" /\ pc'[t] = "idle"
                  /\ \/ op[t].name = "StartMonitor" /\ GetKey(op[t].arg) = k
                     \/ op[t].name = "CancelMonitor" /\ BuildMonitorKey(op[t].arg) = k]_vars

C16_Witness ==
    \E t \in Threads :
       /\ op[t].name = "StartMonitor" /\ op[t].arg = "m2" /\ pc[t] = "idle"
       /\ monitors[GetKey("m2")] = "m2"
       /\ mstate["m1"] = "running" /\ mstate["m2"] = "running"

\* C17: every monitor whose background task is running is the monitor
\* registered under its key.
C17_NoRunningMonitorOutsideRegistry ==
    \A m \in Monitors :
       mstate[m] = "running" => Registered(monitors, GetKey(m)) = m


\* C18: NotifyResource(o) makes at most one Get and at most one Update,
\* both of o, the Get first; it makes no call only for an argument that has
\* no object key.  When it returns nil, o has its counter bumped once with
\* every other annotation kept, and every other object is as it was at the
\* call.  When the Get fails or is not made, the error is returned and no
\* Update is issued.
C18_NotifyResourceTouchesOne ==
    [][\A t \in Threads :
         Returns(t, "NotifyResource") =>
            LET o == op[t].arg
                ios == io'[t]
                before == pre[t][o].annotations
            IN  /\ Len(ios) <= 2
                /\ Len(ios) = 0 <=> o \notin Objects
                /\ Len(ios) >= 1 =>
                      ios[1] \in {IoCall("Get", o, "ok"), IoCall("Get", o, "transport")}
                /\ Len(ios) = 2 => ios[2].call = "Update" /\ ios[2].target = o
                /\ ret'[t].type = "nil" =>
                      /\ ios = <<IoCall("Get", o, "ok"), IoCall("Update", o, "ok")>>
                      /\ BumpedOnce(pre[t][o], store'[o])
                      /\ \A k \in (DOMAIN before.m) \ {NotificationCountKey} :
                            /\ k \in DOMAIN store'[o].annotations.m
                            /\ store'[o].annotations.m[k] = before.m[k]
                      /\ \A p \in Objects \ {o} : store'[p] = pre[t][p]
                /\ (Len(ios) = 0 \/ ios[1].outcome # "ok") =>
                      /\ ret'[t].type = "error"
                      /\ Len(ios) <= 1
                      /\ store' = pre[t]]_vars

C18_Witness ==
    \E t \in Threads :
       /\ op[t] = Op("NotifyResource", "ns1", "hp1", "") /\ pc[t] = "idle"
       /\ ret[t] = NilErr
       /\ ReconcileAfterInSync \in DOMAIN ann0.m
       /\ store["hp1"] = [annotations |-> MapSet(ann0, NotificationCountKey, <<"1">>), rv |-> 1]
       /\ \A p \in Objects \ {"hp1"} : store[p] = [annotations |-> ann0, rv |-> 0]

\* C19: while NotifySystemDependencies runs, no object of the host-profile
\* kind or of the system kind changes, in any namespace: every List it makes
\* is of one of the five dependency kinds and every Update it makes is of an
\* object of one of them.
C19_DependenciesSpareProfileAndSystem ==
    [][\A t \in Threads :
         (op[t].name = "NotifySystemDependencies" /\ pc[t] # "idle") =>
            /\ \A o \in Objects :
                  ObjKind(o) \in {KindHostProfile, KindSystem} => store'[o] = store[o]
            /\ \A i \in 1..Len(io'[t]) :
                  /\ io'[t][i].call = "List" => io'[t][i].target \in DependencyKinds
                  /\ io'[t][i].call = "Update" => ObjKind(io'[t][i].target) \in DependencyKinds]_vars

C19_Witness ==
    \E t \in Threads :
       /\ op[t] = Op("NotifySystemDependencies", "ns1", "", "") /\ pc[t] = "idle"
       /\ ret[t] = NilErr
       /\ store["hp1"].rv = 0 /\ store["s1"].rv = 0 /\ store["s2"].rv = 0
       /\ \A o \in {"h1", "h2", "pn1", "dn1", "pi1"} : store[o].rv = 1


ReadOps == {"GetPlatformClient", "GetSystemReady", "GetSystemType"}

\* what a read of namespace n returns when the registry is sys
ReadResult(name, sys, n) ==
    CASE name = "GetPlatformClient" -> Ret("client", <<>>, "", FieldsOf(sys, n).client)
      [] name = "GetSystemReady" -> RetBool(FieldsOf(sys, n).ready)
      [] name = "GetSystemType" -> RetType(FieldsOf(sys, n).systemType)

\* C20: a read of a namespace without an entry returns false, the empty
\* system type, or no client; a read of a namespace with an entry returns
\* the field; and no step of a read changes the registry of systems or of
\* monitors.
C20_ReadsDefaultAndLeaveRegistry ==
    /\ [](\A n \in Namespaces \ DOMAIN systems :
            /\ getSystemReady(systems, n) = FALSE
            /\ getSystemType(systems, n) = ""
            /\ getPlatformClient(systems, n) = NilClient)
    /\ [][\A t \in Threads :
            (op[t].name \in ReadOps /\ pc[t] # "idle" /\ pc'[t] # pc[t]) =>
               /\ systems' = systems
               /\ monitors' = monitors
               /\ pc'[t] = "idle" => ret'[t] = ReadResult(op[t].name, systems, op[t].ns)]_vars

C20_Witness ==
    /\ op["t1"] = Op("GetSystemType", "ns2", "", "") /\ pc["t1"] = "idle"
    /\ ret["t1"] = RetType("")
    /\ op["t2"] = Op("GetPlatformClient", "ns2", "", "") /\ pc["t2"] = "idle"
    /\ ret["t2"] = Ret("client", <<>>, "", NilClient)
    /\ DOMAIN systems = {"ns1"}
    /\ systems["ns1"] = Entry(1, TRUE, SystemTypeStandard)


\* C22: a ResetPlatformClient(n) that returns an error leaves the client of
\* n cached, as it was before the call, so that a retry notifies again.
C22_FailedResetKeepsClient ==
    [][\A t \in Threads :
         (Returns(t, "ResetPlatformClient") /\ ret'[t].type = "error") =>
            /\ op[t].ns \in DOMAIN systems'
            /\ systems'[op[t].ns].client # NilClient]_vars


Notifying(t) == op[t].name = "ResetPlatformClient" /\ pc[t] \in {"sc_list", "sc_update"}

\* C23: of the ResetPlatformClient(n) calls made by several reconcilers
\* while a client is cached, one clears the client and goes on to notify;
\* a call that finds the client absent returns nil without any call to the
\* store.  No two resets notify at the same time, and the system objects
\* have been updated at most once per client built.
C23_ConcurrentResetNotifiesOnce ==
    /\ [](\A t, u \in Threads : (Notifying(t) /\ Notifying(u)) => t = u)
    /\ [](store["s1"].rv + store["s2"].rv <= nextHandle - 1)
    /\ [][\A t \in Threads :
            RunsBody(t, "ResetPlatformClient") =>
               IF getPlatformClient(systems, op[t].ns) # NilClient
               THEN /\ pc'[t] = "sc_list"
                    /\ getPlatformClient(systems', op[t].ns) = NilClient
               ELSE /\ pc'[t] = "idle"
                    /\ ret'[t] = NilErr
                    /\ io'[t] = <<>>
                    /\ systems' = systems
                    /\ store' = store]_vars

C23_Witness ==
    /\ op["t1"] = Op("ResetPlatformClient", "ns1", "", "") /\ pc["t1"] = "idle"
    /\ ret["t1"] = NilErr /\ Updated(io["t1"]) = {"s1"}
    /\ op["t2"] = Op("ResetPlatformClient", "ns1", "", "") /\ pc["t2"] = "body"
    /\ pre["t2"]["s1"].rv = 0
    /\ store["s1"].rv = 1
    /\ getPlatformClient(systems, "ns1") = NilClient


\* the number a counter text stands for: 0 when it is not a decimal number
CounterValue(v) == IF v # <<>> /\ AllDigits(v) THEN TextValue(v) ELSE 0

\* thread t issues an Update in this step
IssuesUpdate(t) ==
    /\ Len(io'[t]) = Len(io[t]) + 1
    /\ io'[t][Len(io'[t])].call = "Update"

\* C24: with notifications of the same objects running in parallel, the
\* counter of every object is its initial counter plus the number of updates
\* the store accepted for it.  An Update of an object read at a version that
\* is no longer the stored one writes nothing and its error is returned to
\* the caller; an Update that is accepted was read at the stored version.
C24_NoBumpLost ==
    /\ [](\A o \in Objects :
            IF store[o].rv = 0
            THEN store[o].annotations = ann0
            ELSE CountOf(o) =
                    DecimalText(CounterValue(MapGet(ann0, NotificationCountKey)) + store[o].rv))
    /\ [][\A t \in Threads :
            IssuesUpdate(t) =>
               LET item == Head(local[t].items)
                   call == io'[t][Len(io'[t])]
               IN  /\ call.target = item.id
                   /\ item.rv # store[item.id].rv =>
                         /\ call.outcome \in {"conflict", "transport"}
                         /\ store' = store
                         /\ pc'[t] = "idle"
                         /\ ret'[t].type = "error" /\ ret'[t].cause = call.outcome
                   /\ call.outcome = "ok" =>
                         /\ item.rv = store[item.id].rv
                         /\ BumpedOnce(store[item.id], store'[item.id])]_vars

C24_Witness ==
    /\ op["t2"] = Op("NotifyResource", "ns1", "h1", "") /\ pc["t2"] = "idle"
    /\ ret["t2"] = NilErr
    /\ op["t1"].name = "NotifySystemDependencies" /\ pc["t1"] = "idle"
    /\ ret["t1"].type = "error" /\ ret["t1"].cause = "conflict"
    /\ io["t1"][Len(io["t1"])] = IoCall("Update", "h1", "conflict")
    /\ store["h1"].rv = 1
    /\ CountOf("h1") = DecimalText(CounterValue(MapGet(ann0, NotificationCountKey)) + 1)


NamespaceOps ==
    {"GetPlatformClient", "BuildPlatformClient", "ResetPlatformClient",
     "SetSystemReady", "GetSystemReady", "SetSystemType", "GetSystemType"}

\* thread t takes a step of the operation it is in
Steps(t) == pc[t] # "idle" /\ (pc'[t] # pc[t] \/ io'[t] # io[t])

\* C25: a step of an operation called with namespace n leaves the entry of
\* every other namespace as it was (not created, not changed, not removed)
\* and leaves the monitors alone; a step of StartMonitor or CancelMonitor
\* leaves the registry of namespaces as it was.
C25_NamespacesIsolated ==
    [][\A t \in Threads :
         Steps(t) =>
            /\ op[t].name \in NamespaceOps =>
                  /\ \A m \in Namespaces \ {op[t].ns} :
                        /\ m \in DOMAIN systems' <=> m \in DOMAIN systems
                        /\ m \in DOMAIN systems => systems'[m] = systems[m]
                  /\ monitors' = monitors
                  /\ mstate' = mstate
            /\ op[t].name \in {"StartMonitor", "CancelMonitor"} =>
                  systems' = systems]_vars

C25_Witness ==
    /\ op["t1"] = Op("SetSystemType", "ns2", SystemTypeStandard, "") /\ pc["t1"] = "idle"
    /\ DOMAIN systems = {"ns1", "ns2"}
    /\ systems["ns1"] = Entry(1, TRUE, SystemTypeNone)
    /\ systems["ns2"] = Entry(NilClient, FALSE, SystemTypeStandard)
    /\ DOMAIN monitors = {GetKey("m1")} /\ mstate["m1"] = "running"


\* the positions of a call at which it has the lock
InCriticalSection(t) == pc[t] \in {"body", "sc_list", "sc_update"}

\* C21: a call that is inside the critical section has the lock, so at most
\* one is inside; a call that has returned or is waiting does not have it;
\* and, the store answering every call and the lock being handed to every
\* waiter, every operation that was called returns.
C21_EveryOperationReturns ==
    /\ [](\A t \in Threads : InCriticalSection(t) => lock = t)
    /\ [](\A t \in Threads : pc[t] \in {"idle", "lock"} => lock # t)
    /\ \A t \in Threads : (pc[t] # "idle") ~> (pc[t] = "idle")

====
